---------------------------- MODULE Spec2Model ----------------------------
(***************************************************************************)
(* Model of causal_explainer/halpern_pearl/causes.py: causal networks,     *)
(* interventions, causal settings, the event algebra and the decision      *)
(* procedures for actual causes (AC1-AC3) and sufficient causes (SC1-SC4). *)
(*                                                                         *)
(* A Python dict is a TLA+ function whose DOMAIN is the dict's key set.    *)
(* A call that can raise returns a record with a field raised; a setting   *)
(* whose constructor raised is the record [ok |-> FALSE].                  *)
(***************************************************************************)
EXTENDS Integers, Sequences, FiniteSets, TLC

VARIABLES
    scenario,       \* the fixture the client works with
    network,        \* the CausalNetwork the client currently holds
    original,       \* the network as built by add_dependency, before any intervene
    interventions,  \* the interventions applied to original, in order
    setting,        \* the CausalSetting built on network, NoSetting before that
    result          \* the last call and what it returned

vars == <<scenario, network, original, interventions, setting, result>>

\* Bounds of the exploration.
MaxInterventions == 2      \* intervene is chained at most this many times
MaxCandidateSize == 2      \* variables of a candidate cause
MaxSearchVariables == 3    \* sufficient-cause queries (which nest the whole
                           \* actual-cause search) are explored on networks
                           \* with at most this many endogenous variables

EmptyDict == [v \in {} |-> 0]

Restrict(f, S) == [v \in (DOMAIN f) \cap S |-> f[v]]

\* {**a, **b}: the right operand wins on shared keys.
Merge(a, b) == [v \in (DOMAIN a) \cup (DOMAIN b) |-> IF v \in DOMAIN b THEN b[v] ELSE a[v]]

\* All dicts over exactly the keys in keys, each key k with a value in domains[k].
ExactDicts(domains, keys) == { f \in [keys -> UNION { domains[k] : k \in keys }] :
                                 \A k \in keys : f[k] \in domains[k] }

(***************************************************************************)
(* Structural equations are opaque callables in the program.  The model    *)
(* draws them from a small library; each reads only the parents named in   *)
(* its args.                                                               *)
(***************************************************************************)
Max2(a, b) == IF a >= b THEN a ELSE b
Min2(a, b) == IF a <= b THEN a ELSE b

ApplyEquation(eq, values) ==
    CASE eq.op = "copy"   -> values[eq.args[1]]
      [] eq.op = "or"     -> Max2(values[eq.args[1]], values[eq.args[2]])
      [] eq.op = "and"    -> Min2(values[eq.args[1]], values[eq.args[2]])
      [] eq.op = "andnot" -> IF values[eq.args[1]] = 1 /\ values[eq.args[2]] = 0 THEN 1 ELSE 0
      [] eq.op = "sum"    -> values[eq.args[1]] + values[eq.args[2]]

Copy(a) == [op |-> "copy", args |-> <<a>>]
Binary(op, a, b) == [op |-> op, args |-> <<a, b>>]

Dependency(v, parents, eq) == [variable |-> v, parents |-> parents, equation |-> eq]

(***************************************************************************)
(* CausalNetwork                                                           *)
(***************************************************************************)
\* CausalNetwork.__init__
NewNetwork == [graph |-> {}, structural_equations |-> EmptyDict, endogenous_bindings |-> EmptyDict]

Nodes(graph) == { e[1] : e \in graph } \cup { e[2] : e \in graph }
Predecessors(graph, v) == { e[1] : e \in { d \in graph : d[2] = v } }

\* add_dependency: every edge parent -> variable is added and the equation is
\* recorded; nothing is checked and nothing is raised.
add_dependency(N, endogenous_variable, parents, structural_equation) ==
    [N EXCEPT !.graph = @ \cup { <<p, endogenous_variable>> : p \in parents },
              !.structural_equations =
                  Merge(@, [v \in {endogenous_variable} |-> structural_equation])]

\* signature: (sources of the graph, the other nodes)
Exogenous(N) == { v \in Nodes(N.graph) : Predecessors(N.graph, v) = {} }
Endogenous(N) == { v \in Nodes(N.graph) : Predecessors(N.graph, v) # {} }

\* The nodes of graph that a topological sort can order: repeatedly take the
\* nodes all of whose predecessors are already ordered.
RECURSIVE Sortable(_, _)
Sortable(graph, done) ==
    LET ready == { v \in Nodes(graph) \ done : Predecessors(graph, v) \subseteq done }
    IN  IF ready = {} THEN done ELSE Sortable(graph, done \cup ready)

\* topological_sort raises NetworkXUnfeasible on a graph with a cycle.
Acyclic(graph) == Sortable(graph, {}) = Nodes(graph)

\* structural_equation: a pinned value wins over the equation.
structural_equation(N, variable, parent_values) ==
    IF variable \in DOMAIN N.endogenous_bindings
    THEN N.endogenous_bindings[variable]
    ELSE ApplyEquation(N.structural_equations[variable], parent_values)

\* The loop of evaluate over the topological order: values already present
\* (the context) are kept, the others are computed from the values so far.
RECURSIVE EvaluateLoop(_, _, _)
EvaluateLoop(N, values, done) ==
    LET ready == { v \in Nodes(N.graph) \ done : Predecessors(N.graph, v) \subseteq done }
    IN  IF ready = {} THEN values
        ELSE LET v == CHOOSE x \in ready : TRUE
                 next == IF v \in DOMAIN values THEN values
                         ELSE Merge(values, [x \in {v} |-> structural_equation(N, v, values)])
             IN  EvaluateLoop(N, next, done \cup {v})

\* evaluate: the derived values (the keys not in context); raises on a cycle.
evaluate(N, context) ==
    IF ~Acyclic(N.graph) THEN [raised |-> TRUE, values |-> EmptyDict]
    ELSE LET values == EvaluateLoop(N, context, {})
         IN  [raised |-> FALSE, values |-> Restrict(values, (DOMAIN values) \ (DOMAIN context))]

\* Mutant of intervene: the pinned values of the receiver are kept.
intervene_keep_bindings(N, intervention) ==
    [graph |-> { e \in N.graph : e[2] \in Endogenous(N) },
     structural_equations |-> Restrict(N.structural_equations, Endogenous(N)),
     endogenous_bindings |-> Merge(N.endogenous_bindings, intervention)]

\* intervene: a new network with the dependencies of the endogenous variables
\* of this one, and with the intervention as its ONLY pinned values.
intervene(N, intervention) ==
    [graph |-> { e \in N.graph : e[2] \in Endogenous(N) },
     structural_equations |-> Restrict(N.structural_equations, Endogenous(N)),
     endogenous_bindings |-> intervention]


(***************************************************************************)
(* CausalSetting                                                           *)
(***************************************************************************)
NoSetting == [ok |-> FALSE, built |-> FALSE]
FailedSetting == [ok |-> FALSE, built |-> TRUE]

\* Mutant of CausalSetting: the final domain assertion is missing.
CausalSetting_unchecked(N, context, exogenous_domains, endogenous_domains) ==
    IF \/ Exogenous(N) # DOMAIN context
       \/ Exogenous(N) # DOMAIN exogenous_domains
       \/ Endogenous(N) # DOMAIN endogenous_domains
    THEN FailedSetting
    ELSE IF \E v \in DOMAIN exogenous_domains : context[v] \notin exogenous_domains[v]
    THEN FailedSetting
    ELSE LET derived == evaluate(N, context)
             values == Merge(context, derived.values)
         IN  IF derived.raised THEN FailedSetting
             ELSE [ok |-> TRUE, built |-> TRUE,
                   causal_network |-> N,
                   context |-> context,
                   exogenous_domains |-> exogenous_domains,
                   endogenous_domains |-> endogenous_domains,
                   derived_values |-> derived.values,
                   values |-> values]

\* CausalSetting.__init__: the signature assertions, the context assertion,
\* evaluate, and the final assertion that every endogenous value is in its
\* declared domain.  Any failed assertion (or a raising evaluate) leaves no
\* setting.
CausalSetting(N, context, exogenous_domains, endogenous_domains) ==
    IF \/ Exogenous(N) # DOMAIN context
       \/ Exogenous(N) # DOMAIN exogenous_domains
       \/ Endogenous(N) # DOMAIN endogenous_domains
    THEN FailedSetting
    ELSE IF \E v \in DOMAIN exogenous_domains : context[v] \notin exogenous_domains[v]
    THEN FailedSetting
    ELSE LET derived == evaluate(N, context)
             values == Merge(context, derived.values)
         IN  IF derived.raised THEN FailedSetting
             ELSE IF \E v \in DOMAIN endogenous_domains : values[v] \notin endogenous_domains[v]
             THEN FailedSetting
             ELSE [ok |-> TRUE, built |-> TRUE,
                   causal_network |-> N,
                   context |-> context,
                   exogenous_domains |-> exogenous_domains,
                   endogenous_domains |-> endogenous_domains,
                   derived_values |-> derived.values,
                   values |-> values]

(***************************************************************************)
(* Events: PrimitiveEvent, Negation, Conjunction, Disjunction              *)
(***************************************************************************)
PrimitiveEvent(variable, value) == [tag |-> "primitive", variable |-> variable, value |-> value]
Negation(child) == [tag |-> "not", child |-> child]
Conjunction(l, r) == [tag |-> "and", left_child |-> l, right_child |-> r]
Disjunction(l, r) == [tag |-> "or", left_child |-> l, right_child |-> r]
NoEvent == [tag |-> "none"]

RECURSIVE variables(_)
variables(event) ==
    CASE event.tag = "primitive" -> {event.variable}
      [] event.tag = "not"       -> variables(event.child)
      [] OTHER                   -> variables(event.left_child) \cup variables(event.right_child)

\* entailed_by of an event whose variables all have a value in the setting.
RECURSIVE entailed_by(_, _)
entailed_by(event, S) ==
    CASE event.tag = "primitive" -> S.values[event.variable] = event.value
      [] event.tag = "not"       -> ~entailed_by(event.child, S)
      [] event.tag = "and"       -> entailed_by(event.left_child, S) /\ entailed_by(event.right_child, S)
      [] event.tag = "or"        -> entailed_by(event.left_child, S) \/ entailed_by(event.right_child, S)

AssertionError == [tag |-> "AssertionError"]

\* assignments2conjunction: `assert assignments`, then one item is popped and
\* put in front of the conjunction of the items popped before it, until the
\* dict is empty.
RECURSIVE assignments2conjunction(_, _)
assignments2conjunction(assignments, right_child) ==
    IF DOMAIN assignments = {} THEN AssertionError
    ELSE LET variable == CHOOSE v \in DOMAIN assignments : TRUE
             assignments_remainder == Restrict(assignments, (DOMAIN assignments) \ {variable})
             primitive_event == PrimitiveEvent(variable, assignments[variable])
             formula == IF right_child = NoEvent THEN primitive_event
                        ELSE Conjunction(primitive_event, right_child)
         IN  IF DOMAIN assignments_remainder # {}
             THEN assignments2conjunction(assignments_remainder, formula)
             ELSE formula

(***************************************************************************)
(* CausalFormula                                                           *)
(***************************************************************************)
Returned(b) == [raised |-> FALSE, value |-> b]
Raised == [raised |-> TRUE, value |-> FALSE]

\* Mutant of CausalFormula.entailed_by: the setting is rebuilt with all the
\* values of the old setting as its context.
CausalFormula_entailed_by_values(intervention, event, S) ==
    LET new_causal_network == intervene(S.causal_network, intervention)
        new_causal_setting == CausalSetting(new_causal_network, S.values,
                                            S.exogenous_domains, S.endogenous_domains)
    IN  IF new_causal_setting.ok THEN Returned(entailed_by(event, new_causal_setting))
        ELSE Raised

\* CausalFormula(intervention, event).entailed_by(S): intervene on the
\* setting's network, rebuild the setting under the same context and domains
\* (which raises when an assertion of the constructor fails), evaluate.
CausalFormula_entailed_by(intervention, event, S) ==
    LET new_causal_network == intervene(S.causal_network, intervention)
        new_causal_setting == CausalSetting(new_causal_network, S.context,
                                            S.exogenous_domains, S.endogenous_domains)
    IN  IF new_causal_setting.ok THEN Returned(entailed_by(event, new_causal_setting))
        ELSE Raised

\* The same call where it sits in a condition of a decision procedure.
Holds(r) == ~r.raised /\ r.value


(***************************************************************************)
(* Helpers of causal_explainer.utils                                       *)
(***************************************************************************)
\* powerset(keys): every subset of keys, the empty one included.
powerset(keys) == SUBSET keys

\* powerdict(d): every sub-dict of d, the empty one and d itself included.
powerdict(d) == { Restrict(d, K) : K \in powerset(DOMAIN d) }

(***************************************************************************)
(* Enumeration of candidates                                               *)
(***************************************************************************)
\* find_exact_assignments: the product of the domains of the variables.
find_exact_assignments(domains, variables_) == ExactDicts(domains, variables_)

\* find_all_assignments: the exact assignments of every non-empty subset.
find_all_assignments(domains) ==
    UNION { find_exact_assignments(domains, vs) : vs \in powerset(DOMAIN domains) \ {{}} }

(***************************************************************************)
(* Actual causes.  The decision procedures are explored on settings whose  *)
(* equations map domain values to domain values, so that the rebuilt       *)
(* settings inside them never raise.                                       *)
(***************************************************************************)
satisfies_ac1(candidate, event, S) ==
    IF DOMAIN candidate = {} THEN FALSE
    ELSE IF ~entailed_by(assignments2conjunction(candidate, NoEvent), S) THEN FALSE
    ELSE IF ~entailed_by(event, S) THEN FALSE
    ELSE TRUE

\* Mutant of find_witnesses_ac2: no other variable is ever held at its
\* factual value (w is always empty).
find_witnesses_ac2_no_w(candidate, event, S) ==
    LET x == [v \in DOMAIN candidate |-> S.values[v]]
        x_domains == [v \in DOMAIN x |-> S.endogenous_domains[v] \ {x[v]}]
    IN  { witness \in ExactDicts(x_domains, DOMAIN x) :
            Holds(CausalFormula_entailed_by(witness, Negation(event), S)) }

\* Mutant of find_witnesses_ac2: every other variable is held at its factual
\* value (w is always all_w).
find_witnesses_ac2_all_w(candidate, event, S) ==
    LET x == [v \in DOMAIN candidate |-> S.values[v]]
        all_w == [v \in (DOMAIN S.endogenous_domains) \ (DOMAIN candidate) |-> S.values[v]]
        x_domains == [v \in DOMAIN x |-> S.endogenous_domains[v] \ {x[v]}]
    IN  { witness \in { Merge(x_prime, all_w) : x_prime \in ExactDicts(x_domains, DOMAIN x) } :
            Holds(CausalFormula_entailed_by(witness, Negation(event), S)) }

\* find_witnesses_ac2: x holds the FACTUAL values of the candidate's variables
\* (the candidate's own values are not read); x' ranges over the other values
\* of their domains, w over the sub-dicts of the factual values of the
\* remaining endogenous variables.
find_witnesses_ac2(candidate, event, S) ==
    LET x == [v \in DOMAIN candidate |-> S.values[v]]
        all_w == [v \in (DOMAIN S.endogenous_domains) \ (DOMAIN candidate) |-> S.values[v]]
        x_domains == [v \in DOMAIN x |-> S.endogenous_domains[v] \ {x[v]}]
    IN  { witness \in { Merge(x_prime, w) : x_prime \in ExactDicts(x_domains, DOMAIN x),
                                            w \in powerdict(all_w) } :
            Holds(CausalFormula_entailed_by(witness, Negation(event), S)) }

satisfies_ac2(candidate, event, S) ==
    IF DOMAIN candidate = {} THEN FALSE
    ELSE find_witnesses_ac2(candidate, event, S) # {}

is_weak_actual_cause(candidate, event, S) ==
    IF ~satisfies_ac1(candidate, event, S) THEN FALSE
    ELSE IF ~satisfies_ac2(candidate, event, S) THEN FALSE
    ELSE TRUE

\* Mutant of satisfies_ac3: the candidate itself is not skipped.
satisfies_ac3_not_strict(candidate, event, S) ==
    \A subset_candidate \in powerdict(candidate) :
        ~is_weak_actual_cause(subset_candidate, event, S)

satisfies_ac3(candidate, event, S) ==
    \A subset_candidate \in powerdict(candidate) :
        subset_candidate # candidate => ~is_weak_actual_cause(subset_candidate, event, S)

\* Mutant of is_actual_cause: AC3 is not asked.
is_actual_cause_weak(candidate, event, S) ==
    IF ~is_weak_actual_cause(candidate, event, S) THEN FALSE
    ELSE TRUE

is_actual_cause(candidate, event, S) ==
    IF ~is_weak_actual_cause(candidate, event, S) THEN FALSE
    ELSE IF ~satisfies_ac3(candidate, event, S) THEN FALSE
    ELSE TRUE

\* search_candidate_causes(event, S, is_actual_cause)
search_actual_causes(event, S) ==
    { candidate \in find_all_assignments(S.endogenous_domains) : is_actual_cause(candidate, event, S) }

(***************************************************************************)
(* Sufficient causes                                                       *)
(***************************************************************************)
\* satisfies_sc1 has no guard for the empty candidate: the assertion of
\* assignments2conjunction raises.
satisfies_sc1(candidate, event, S) ==
    LET conjunction == assignments2conjunction(candidate, NoEvent)
    IN  IF conjunction = AssertionError THEN Raised
        ELSE IF ~entailed_by(conjunction, S) THEN Returned(FALSE)
        ELSE IF ~entailed_by(event, S) THEN Returned(FALSE)
        ELSE Returned(TRUE)

satisfies_sc2(candidate, event, S) ==
    \E actual_cause \in search_actual_causes(event, S) :
        \E variable \in DOMAIN candidate :
            variable \in DOMAIN actual_cause /\ actual_cause[variable] = candidate[variable]

\* Mutant of satisfies_sc3: only the actual context is tried.
satisfies_sc3_actual_context(candidate, event, S) ==
    Holds(CausalFormula_entailed_by(candidate, event, S))

satisfies_sc3(candidate, event, S) ==
    \A context_prime \in find_exact_assignments(S.exogenous_domains, DOMAIN S.exogenous_domains) :
        LET S_prime == CausalSetting(S.causal_network, context_prime,
                                     S.exogenous_domains, S.endogenous_domains)
        IN  S_prime.ok /\ Holds(CausalFormula_entailed_by(candidate, event, S_prime))

is_weak_sufficient_cause(candidate, event, S) ==
    LET sc1 == satisfies_sc1(candidate, event, S)
    IN  IF sc1.raised THEN Raised
        ELSE IF ~sc1.value THEN Returned(FALSE)
        ELSE IF ~satisfies_sc2(candidate, event, S) THEN Returned(FALSE)
        ELSE IF ~satisfies_sc3(candidate, event, S) THEN Returned(FALSE)
        ELSE Returned(TRUE)

satisfies_sc4(candidate, event, S) ==
    \A subset_candidate \in powerdict(candidate) :
        (DOMAIN subset_candidate # {} /\ subset_candidate # candidate)
            => ~Holds(is_weak_sufficient_cause(subset_candidate, event, S))

is_sufficient_cause(candidate, event, S) ==
    LET weak == is_weak_sufficient_cause(candidate, event, S)
    IN  IF weak.raised THEN Raised
        ELSE IF ~weak.value THEN Returned(FALSE)
        ELSE IF ~satisfies_sc4(candidate, event, S) THEN Returned(FALSE)
        ELSE Returned(TRUE)


(***************************************************************************)
(* Fixtures: the inputs the client supplies.                               *)
(***************************************************************************)
RockThrowing ==
    <<Dependency("ST", {"US"}, Copy("US")),
      Dependency("BT", {"UB"}, Copy("UB")),
      Dependency("SH", {"ST"}, Copy("ST")),
      Dependency("BH", {"BT", "SH"}, Binary("andnot", "BT", "SH")),
      Dependency("BS", {"SH", "BH"}, Binary("or", "SH", "BH"))>>

ForestFire(op) ==
    <<Dependency("L", {"UL"}, Copy("UL")),
      Dependency("MD", {"UMD"}, Copy("UMD")),
      Dependency("FF", {"L", "MD"}, Binary(op, "L", "MD"))>>

\* Three-valued variables: C is the larger of A and B.
Maximum ==
    <<Dependency("A", {"UA"}, Copy("UA")),
      Dependency("B", {"UB"}, Copy("UB")),
      Dependency("C", {"A", "B"}, Binary("or", "A", "B"))>>

Script(name) ==
    CASE name = "RockThrowing"          -> RockThrowing
      [] name = "ForestFireDisjunctive" -> ForestFire("or")
      [] name = "ForestFireConjunctive" -> ForestFire("and")
      [] name = "Maximum"               -> Maximum

\* What the client of the workbench may pass to add_dependency, in any order
\* and any number of times: L = UL and FF = L, an equation that leaves the
\* declared domain (FF = UL + L) and a dependency that closes a cycle (L = FF).
Menu ==
    { Dependency("L", {"UL"}, Copy("UL")),
      Dependency("FF", {"L"}, Copy("L")),
      Dependency("FF", {"UL", "L"}, Binary("sum", "UL", "L")),
      Dependency("L", {"FF"}, Copy("FF")) }

\* The declared domain of every variable of a fixture.
Domain(name) == IF name = "Maximum" THEN {0, 1, 2} ELSE {0, 1}

\* The interventions the client of the workbench applies; 2 is outside the
\* declared domain.
Pins ==
    { EmptyDict,
      [v \in {"L"} |-> 0], [v \in {"L"} |-> 1],
      [v \in {"FF"} |-> 0], [v \in {"FF"} |-> 2],
      [v \in {"L", "FF"} |-> IF v = "L" THEN 1 ELSE 0] }

Events(name) ==
    CASE name = "RockThrowing" ->
            { PrimitiveEvent("BS", 1), PrimitiveEvent("BS", 0), Negation(PrimitiveEvent("BS", 1)),
              Conjunction(PrimitiveEvent("SH", 1), PrimitiveEvent("BS", 1)),
              Disjunction(PrimitiveEvent("BH", 1), PrimitiveEvent("SH", 0)) }
      [] name = "Maximum" ->
            { PrimitiveEvent("C", 2), PrimitiveEvent("C", 0), Negation(PrimitiveEvent("C", 1)),
              Conjunction(PrimitiveEvent("A", 1), PrimitiveEvent("C", 1)),
              Disjunction(PrimitiveEvent("C", 1), PrimitiveEvent("C", 2)) }
      [] name = "Workbench" ->
            { PrimitiveEvent("FF", 1), Negation(PrimitiveEvent("FF", 1)),
              Conjunction(PrimitiveEvent("L", 1), PrimitiveEvent("FF", 1)),
              Disjunction(PrimitiveEvent("L", 0), PrimitiveEvent("FF", 1)) }
      [] OTHER ->
            { PrimitiveEvent("FF", 1), PrimitiveEvent("FF", 0), Negation(PrimitiveEvent("FF", 1)),
              Conjunction(PrimitiveEvent("L", 1), PrimitiveEvent("MD", 1)),
              Disjunction(PrimitiveEvent("L", 0), PrimitiveEvent("FF", 1)) }

\* The network the calls add_dependency of a script build, in order.
RECURSIVE BuildNetwork(_, _)
BuildNetwork(N, script) ==
    IF script = <<>> THEN N
    ELSE BuildNetwork(add_dependency(N, Head(script).variable, Head(script).parents,
                                     Head(script).equation), Tail(script))

DomainsOf(name, keys) == [v \in keys |-> Domain(name)]

Assignments(domains, size) ==
    { a \in find_all_assignments(domains) : Cardinality(DOMAIN a) <= size }

\* The interventions the client applies: those that pin endogenous variables.
Interventions(N) == { i \in Pins : DOMAIN i \subseteq Endogenous(N) }

\* The candidates the client asks about: the empty one and the assignments of
\* at most MaxCandidateSize endogenous variables.
Candidates(S) ==
    {EmptyDict} \cup Assignments(S.endogenous_domains, MaxCandidateSize)

NoResult == [op |-> "none"]

Call(op, candidate, event, r) ==
    [op |-> op, candidate |-> candidate, event |-> event, raised |-> r.raised, value |-> r.value]

FormulaCall(intervention, event, r) ==
    [op |-> "CausalFormula.entailed_by", intervention |-> intervention, event |-> event,
     raised |-> r.raised, value |-> r.value]

(***************************************************************************)
(* Specification Spec: a client builds a network, intervenes on it, builds *)
(* a setting and evaluates events and causal formulas in it.               *)
(***************************************************************************)
Init ==
    /\ scenario = "Workbench"
    /\ network = NewNetwork
    /\ original = NewNetwork
    /\ interventions = <<>>
    /\ setting = NoSetting
    /\ result = NoResult

\* network.add_dependency(d.variable, d.parents, d.equation)
AddDependency(d) ==
    /\ interventions = <<>>
    /\ ~setting.built
    /\ network' = add_dependency(network, d.variable, d.parents, d.equation)
    /\ original' = network'
    /\ result' = [op |-> "add_dependency", dependency |-> d, before |-> network, raised |-> FALSE]
    /\ UNCHANGED <<scenario, interventions, setting>>

\* network = network.intervene(intervention)
Intervene(intervention) ==
    /\ ~setting.built
    /\ Len(interventions) < MaxInterventions
    /\ network' = intervene(network, intervention)
    /\ interventions' = Append(interventions, intervention)
    /\ result' = [op |-> "intervene", intervention |-> intervention]
    /\ UNCHANGED <<scenario, original, setting>>

\* setting = CausalSetting(network, context, exogenous_domains, endogenous_domains)
MakeSetting(context) ==
    /\ ~setting.built
    /\ setting' = CausalSetting(network, context,
                                DomainsOf(scenario, Exogenous(network)),
                                DomainsOf(scenario, Endogenous(network)))
    /\ result' = [op |-> "CausalSetting", context |-> context]
    /\ UNCHANGED <<scenario, network, original, interventions>>

\* The queries are pure: they read the setting and change nothing, so a
\* second query of a session would start from the state the first started
\* from.  A session asks one.
Asked == result.op \notin {"none", "CausalSetting"}

\* event.entailed_by(setting)
EntailedBy(event) ==
    /\ setting.ok
    /\ ~Asked
    /\ variables(event) \subseteq DOMAIN setting.values
    /\ result' = Call("entailed_by", EmptyDict, event, Returned(entailed_by(event, setting)))
    /\ UNCHANGED <<scenario, network, original, interventions, setting>>

\* CausalFormula(intervention, event).entailed_by(setting)
FormulaEntailedBy(intervention, event) ==
    /\ setting.ok
    /\ ~Asked
    /\ variables(event) \subseteq DOMAIN setting.values
    /\ result' = FormulaCall(intervention, event,
                             CausalFormula_entailed_by(intervention, event, setting))
    /\ UNCHANGED <<scenario, network, original, interventions, setting>>

Next ==
    \/ \E d \in Menu : AddDependency(d)
    \/ \E i \in Interventions(network) : Intervene(i)
    \/ \E c \in ExactDicts(DomainsOf(scenario, Exogenous(network)), Exogenous(network)) :
           MakeSetting(c)
    \/ \E e \in Events(scenario) : EntailedBy(e)
    \/ \E i \in Interventions(network), e \in Events(scenario) : FormulaEntailedBy(i, e)

Spec == Init /\ [][Next]_vars

(***************************************************************************)
(* Specification SpecCauses: a client holds the setting of a fixture in    *)
(* some context and asks one of the decision procedures about a candidate  *)
(* and an event.                                                           *)
(***************************************************************************)
CauseScenarios == {"RockThrowing", "ForestFireDisjunctive", "ForestFireConjunctive", "Maximum"}

InitCauses ==
    /\ scenario \in CauseScenarios
    /\ network = BuildNetwork(NewNetwork, Script(scenario))
    /\ original = network
    /\ interventions = <<>>
    /\ \E context \in ExactDicts(DomainsOf(scenario, Exogenous(network)), Exogenous(network)) :
           setting = CausalSetting(network, context,
                                   DomainsOf(scenario, Exogenous(network)),
                                   DomainsOf(scenario, Endogenous(network)))
    /\ setting.ok
    /\ result = NoResult

Ask(op, candidate, event, r) ==
    /\ setting.ok
    /\ ~Asked
    /\ result' = Call(op, candidate, event, r)
    /\ UNCHANGED <<scenario, network, original, interventions, setting>>

SatisfiesAC2(candidate, event) ==
    Ask("satisfies_ac2", candidate, event, Returned(satisfies_ac2(candidate, event, setting)))

IsWeakActualCause(candidate, event) ==
    Ask("is_weak_actual_cause", candidate, event,
        Returned(is_weak_actual_cause(candidate, event, setting)))

IsActualCause(candidate, event) ==
    Ask("is_actual_cause", candidate, event, Returned(is_actual_cause(candidate, event, setting)))

\* The sufficient-cause procedures run the whole actual-cause search.
Searchable == Cardinality(DOMAIN setting.endogenous_domains) <= MaxSearchVariables

IsWeakSufficientCause(candidate, event) ==
    /\ Searchable
    /\ Ask("is_weak_sufficient_cause", candidate, event,
           is_weak_sufficient_cause(candidate, event, setting))

IsSufficientCause(candidate, event) ==
    /\ Searchable
    /\ Ask("is_sufficient_cause", candidate, event, is_sufficient_cause(candidate, event, setting))

NextCauses ==
    \/ \E candidate \in Candidates(setting), event \in Events(scenario) :
           SatisfiesAC2(candidate, event)
    \/ \E candidate \in Candidates(setting), event \in Events(scenario) :
           IsWeakActualCause(candidate, event)
    \/ \E candidate \in Candidates(setting), event \in Events(scenario) :
           IsActualCause(candidate, event)
    \/ \E candidate \in Candidates(setting), event \in Events(scenario) :
           IsWeakSufficientCause(candidate, event)
    \/ \E candidate \in Candidates(setting), event \in Events(scenario) :
           IsSufficientCause(candidate, event)

SpecCauses == InitCauses /\ [][NextCauses]_vars

(***************************************************************************)
(* Properties                                                              *)
(***************************************************************************)
One(v, x) == [k \in {v} |-> x]
AllOnes(keys) == [k \in keys |-> 1]

RockThrowingCase ==
    /\ scenario = "RockThrowing"
    /\ setting.context = AllOnes({"US", "UB"})
    /\ result.op = "is_actual_cause"
    /\ result.event = PrimitiveEvent("BS", 1)

\* C1: in the rock-throwing setting with US = UB = 1 and the event BS = 1,
\* is_actual_cause is true of {ST=1}, false of {BT=1} and false of
\* {ST=1, BT=1}.
C1_RockThrowing ==
    RockThrowingCase =>
        /\ result.candidate = One("ST", 1) => result.value
        /\ result.candidate = One("BT", 1) => ~result.value
        /\ result.candidate = AllOnes({"ST", "BT"}) => ~result.value

C1_Witness == RockThrowingCase /\ result.candidate = One("ST", 1) /\ result.value

ForestFireCase ==
    /\ scenario = "ForestFireDisjunctive"
    /\ setting.context = AllOnes({"UL", "UMD"})
    /\ result.op = "is_actual_cause"
    /\ result.event = PrimitiveEvent("FF", 1)

\* C2 as stated: in the disjunctive forest fire with L = MD = 1 and the event
\* FF = 1, no candidate of one endogenous variable is an actual cause, and
\* {L=1, MD=1} is an actual cause.
C2_NoCauseOfSizeOne ==
    ForestFireCase =>
        /\ Cardinality(DOMAIN result.candidate) = 1 => ~result.value
        /\ result.candidate = AllOnes({"L", "MD"}) => result.value

\* C2 as amended: no candidate over L alone or MD alone is an actual cause, the
\* only actual cause of one variable is the event's own {FF=1}, and
\* {L=1, MD=1} is an actual cause.
C2_ForestFireDisjunctive ==
    ForestFireCase =>
        /\ Cardinality(DOMAIN result.candidate) = 1 =>
               (result.value <=> result.candidate = One("FF", 1))
        /\ result.candidate = AllOnes({"L", "MD"}) => result.value

C2_Witness == ForestFireCase /\ result.candidate = AllOnes({"L", "MD"}) /\ result.value

StrictSubCandidates(candidate) ==
    { Restrict(candidate, K) : K \in (SUBSET DOMAIN candidate) \ {{}, DOMAIN candidate} }

\* C3: is_actual_cause(X, e, S) is true exactly when X is a weak actual cause
\* and no strict non-empty subset of X is a weak actual cause.
C3_ActualIffMinimalWeak ==
    result.op = "is_actual_cause" =>
        (result.value <=>
            /\ is_weak_actual_cause(result.candidate, result.event, setting)
            /\ \A sub \in StrictSubCandidates(result.candidate) :
                   ~is_weak_actual_cause(sub, result.event, setting))

\* A weak actual cause that is not minimal.
C3_Witness ==
    /\ result.op = "is_actual_cause"
    /\ ~result.value
    /\ is_weak_actual_cause(result.candidate, result.event, setting)
    /\ \E sub \in StrictSubCandidates(result.candidate) :
           is_weak_actual_cause(sub, result.event, setting)

DecisionPredicates ==
    {"is_weak_actual_cause", "is_actual_cause", "is_weak_sufficient_cause", "is_sufficient_cause"}

\* C4: every decision predicate called with the empty candidate returns false
\* and does not raise.
C4_EmptyCandidateIsFalse ==
    (result.op \in DecisionPredicates /\ result.candidate = EmptyDict) =>
        (~result.raised /\ ~result.value)

Contexts(N) == ExactDicts(DomainsOf(scenario, Exogenous(N)), Exogenous(N))

Last(seq) == seq[Len(seq)]
Previous(seq) == seq[Len(seq) - 1]

\* C5 as stated: after intervene(intervene(N, s1), s2), evaluate gives every
\* variable of s2 the value it has under intervene(N, s2), and every variable
\* of s1 that is not in s2 its pinned value s1[V].
C5_EarlierPinsKept ==
    Len(interventions) >= 2 =>
        LET s1 == Previous(interventions)
            s2 == Last(interventions)
        IN  \A c \in Contexts(network) :
                LET got == evaluate(network, c)
                    want == evaluate(intervene(original, s2), c)
                IN  /\ got.raised = want.raised
                    /\ ~got.raised =>
                           /\ \A V \in DOMAIN s2 : got.values[V] = want.values[V]
                           /\ \A V \in (DOMAIN s1) \ (DOMAIN s2) : got.values[V] = s1[V]

\* C5 as amended: after intervene(intervene(N, s1), s2), evaluate gives EVERY
\* variable the value it has under intervene(N, s2): the pins of s1 are
\* dropped, not kept.
C5_LaterInterventionReplaces ==
    Len(interventions) >= 2 =>
        \A c \in Contexts(network) :
            evaluate(network, c) = evaluate(intervene(original, Last(interventions)), c)

\* A variable pinned by s1 and not by s2 that evaluates to another value.
C5_Witness ==
    /\ Len(interventions) >= 2
    /\ \E c \in Contexts(network) :
           LET got == evaluate(network, c)
           IN  /\ ~got.raised
               /\ \E V \in (DOMAIN Previous(interventions)) \ (DOMAIN Last(interventions)) :
                      got.values[V] # Previous(interventions)[V]

IdentityFormulaCase ==
    /\ result.op = "CausalFormula.entailed_by"
    /\ result.intervention = EmptyDict

\* C6 as stated: in every setting, also one built on a network returned by
\* intervene, the causal formula with the empty intervention has the truth
\* value of its event.
C6_IdentityIntervention ==
    IdentityFormulaCase =>
        (~result.raised /\ (result.value <=> entailed_by(result.event, setting)))

\* C6 as amended: the same, in every setting whose network has no pinned
\* value.
C6_IdentityInterventionUnpinned ==
    (IdentityFormulaCase /\ setting.causal_network.endogenous_bindings = EmptyDict) =>
        (~result.raised /\ (result.value <=> entailed_by(result.event, setting)))

\* The setting is built on a network returned by intervene (with nothing
\* pinned) and the formula holds.
C6_Witness ==
    /\ IdentityFormulaCase
    /\ setting.causal_network.endogenous_bindings = EmptyDict
    /\ Len(interventions) >= 1
    /\ result.value

\* C7: add_dependency raises and leaves the network unchanged whenever its
\* edges would close a cycle.
C7_CycleRejected ==
    (/\ result.op = "add_dependency"
     /\ ~Acyclic(result.before.graph
                 \cup { <<p, result.dependency.variable>> : p \in result.dependency.parents }))
        => (result.raised /\ network = result.before)

\* The endogenous variables whose evaluated value is outside the declared
\* domain, for the network and the context of the last CausalSetting call.
OutOfDomain ==
    LET derived == evaluate(network, result.context)
    IN  IF derived.raised THEN {}
        ELSE { v \in Endogenous(network) : derived.values[v] \notin Domain(scenario) }

\* C8: the construction of a setting fails when the value evaluated for some
\* endogenous variable (by its equation or by a pin) is outside its declared
\* domain, and every value of a setting that was built is in its domain.
C8_DomainChecked ==
    result.op = "CausalSetting" =>
        /\ OutOfDomain # {} => ~setting.ok
        /\ setting.ok => \A v \in DOMAIN setting.values : setting.values[v] \in Domain(scenario)

\* The construction failed on the value of a structural equation.
C8_Witness ==
    /\ result.op = "CausalSetting"
    /\ ~setting.ok
    /\ \E v \in OutOfDomain : v \notin DOMAIN network.endogenous_bindings

SufficientCase ==
    /\ result.op \in {"is_weak_sufficient_cause", "is_sufficient_cause"}
    /\ result.candidate # EmptyDict
    /\ ~result.raised
    /\ result.value

\* C9: when is_weak_sufficient_cause (or is_sufficient_cause) is true of a
\* non-empty candidate X, the event holds after intervening with X in the
\* setting of every context of the product of the exogenous domains.
C9_SufficientInEveryContext ==
    SufficientCase =>
        \A c \in ExactDicts(setting.exogenous_domains, DOMAIN setting.exogenous_domains) :
            LET S_c == CausalSetting(intervene(setting.causal_network, result.candidate), c,
                                     setting.exogenous_domains, setting.endogenous_domains)
            IN  S_c.ok /\ entailed_by(result.event, S_c)

C9_Witness == SufficientCase /\ result.op = "is_weak_sufficient_cause"

\* There are an x' giving each variable V of X a value of its domain other
\* than excluded[V], and a subset W of the other endogenous variables, such
\* that the event is false after intervening with x' and the factual values
\* of W.
HasWitness(X, e, S, excluded) ==
    \E x_prime \in ExactDicts([v \in DOMAIN X |-> S.endogenous_domains[v] \ {excluded[v]}],
                              DOMAIN X) :
        \E W \in SUBSET ((DOMAIN S.endogenous_domains) \ (DOMAIN X)) :
            LET S_w == CausalSetting(intervene(S.causal_network,
                                               Merge(x_prime, Restrict(S.values, W))),
                                     S.context, S.exogenous_domains, S.endogenous_domains)
            IN  S_w.ok /\ ~entailed_by(e, S_w)

AC2Case == result.op = "satisfies_ac2" /\ result.candidate # EmptyDict

\* C10 as stated: satisfies_ac2(X, e, S) is true exactly when a witness exists
\* whose x' avoids, for each V of X, the candidate's own value X[V].
C10_WitnessAvoidsCandidateValue ==
    AC2Case =>
        (result.value <=> HasWitness(result.candidate, result.event, setting, result.candidate))

\* C10 as amended: satisfies_ac2(X, e, S) is true exactly when a witness
\* exists whose x' avoids, for each V of X, the factual value S.values[V].
C10_WitnessAvoidsFactualValue ==
    AC2Case =>
        (result.value <=> HasWitness(result.candidate, result.event, setting, setting.values))

\* A candidate that is not factual, for which the two readings differ.
C10_Witness ==
    /\ AC2Case
    /\ \E v \in DOMAIN result.candidate : result.candidate[v] # setting.values[v]
    /\ result.value
    /\ ~HasWitness(result.candidate, result.event, setting, result.candidate)

============================================================================
